---- MODULE Spec2Model ----
(***************************************************************************)
(* The persistent task store of the weather agent (DBTaskStore): a thin    *)
(* wrapper around one sqlite3 connection that keeps serialized Task        *)
(* objects in a table `tasks (id TEXT PRIMARY KEY, task_data TEXT)`.       *)
(*                                                                         *)
(* The store object has two fields, db_path and _conn.  Behind them sits   *)
(* the sqlite3 library: a set of live connection objects and the database  *)
(* a connection reaches -- the file named by db_path, or, for the names    *)
(* ":memory:" and "", a private database that lives and dies with the      *)
(* connection.  The environment may make a step of the library fail        *)
(* (the file cannot be opened, a statement cannot be run); which step      *)
(* fails in a call is an input of the call.                                *)
(***************************************************************************)
EXTENDS Integers, Sequences, FiniteSets, TLC

\* ------------------------------------------------------------------ bounds
NumIds      == 2       \* task ids are 1..NumIds
NumStatuses == 2       \* the content of a task besides its id
MaxConn     == 2       \* connection objects sqlite3 can hand out at a time
NumCallers  == 2       \* coroutines that call one store
NumThreads  == 2       \* threads that call one store
NumTools    == 3       \* tools the MCP servers can offer
MaxPeriods  == 6       \* forecast periods the weather service answers with

Ids      == 1..NumIds
Statuses == 1..NumStatuses

\* ------------------------------------------------------------- data model
\* a2a.types.Task, reduced to its id and the rest of its content.
Task == [id : Ids, status : Statuses]

\* Python None where a Task is expected (the result of get for a missing id).
None == [id |-> 0, status |-> 0]

\* self._conn = None
NoConn == 0

\* The locations a store is constructed with: the path of a database file, or
\* one of the names for which sqlite3.connect gives a private database,
\* ":memory:" (in memory) and "" (a temporary file); the two behave alike and
\* the first stands for both.
Locations == {"tasks.db", ":memory:"}

Private(path) == path \in {":memory:", ""}

\* task.json(): the text written to the task_data column, the fields of the
\* task one after the other.
json(task) == <<task.id, task.status>>

\* What Task.parse_raw accepts: a text with every field of a Task.
WellFormed(text) ==
    /\ Len(text) = 2
    /\ text[1] \in Ids
    /\ text[2] \in Statuses

\* A parse_raw that reads the id where the content is (C1).
parse_raw_lossy(text) == [id |-> text[1], status |-> text[1]]

\* Task.parse_raw(text), for a text it accepts.
parse_raw(text) == [id |-> text[1], status |-> text[2]]

\* A database: is the table tasks there, is its id column a primary key,
\* and its rows (id, task_data).
EmptyDB == [table |-> FALSE, pk |-> FALSE, rows |-> {}]

Row(id, text) == [id |-> id, task_data |-> text]

\* The outcomes of a call: it returns, or it raises one of these.
OK              == "ok"
CannotOpen      == "OperationalError: unable to open database file"
SchemaFailed    == "OperationalError: CREATE TABLE failed"
NoSuchTable     == "OperationalError: no such table: tasks"
StmtFailed      == "OperationalError: disk I/O error"
ClosedDatabase  == "ProgrammingError: Cannot operate on a closed database"
ValidationError == "ValidationError: invalid task_data"
WrongThread     == "ProgrammingError: SQLite objects created in a thread can only be used in that same thread"
NoConnection    == "AttributeError: 'NoneType' object has no attribute 'execute'"

\* What the environment does to a call: nothing, or it makes the named step
\* of the call fail if that step is executed.
Faults == {"none", "connect", "schema", "stmt"}

\* ------------------------------------------- the Airbnb agent's lifespan
\* The tools an MCP server can offer; client.get_tools() returns some of them.
Tools == 1..NumTools

\* SERVER_CONFIGS: the servers the MultiServerMCPClient is made for.
SERVER_CONFIGS == {"bnb"}

\* A dict with no key, and context[key] = value.
EmptyContext == [k \in {} |-> {}]

Put(ctx, key, value) ==
    [k \in DOMAIN ctx \cup {key} |-> IF k = key THEN value ELSE ctx[k]]

\* app_context.get("mcp_tools", [])
GetOr(ctx, key, default) == IF key \in DOMAIN ctx THEN ctx[key] ELSE default

\* A teardown that takes the `if "mcp_client" in context` for a reason to
\* leave the context as it is (C18).
clear_unless_client(ctx) ==
    IF "mcp_client" \in DOMAIN ctx THEN ctx ELSE EmptyContext

\* context.clear()
clear(ctx) == EmptyContext

\* What can be raised: an Exception, which `except Exception` catches, or a
\* BaseException that it does not (asyncio.CancelledError, KeyboardInterrupt).
NoExc == "none"

Exceptions == {"Exception", "BaseException"}

\* ---------------------------------------------- the weather agent's tools
\* if not (-90 <= latitude <= 90 and -180 <= longitude <= 180)
MaxLatitude  == 90
MaxLongitude == 180

InRange(a) ==
    /\ -MaxLatitude <= a.latitude /\ a.latitude <= MaxLatitude
    /\ -MaxLongitude <= a.longitude /\ a.longitude <= MaxLongitude

\* periods[:5]
MaxShown == 5

\* The coordinates get_forecast is called with: inside, on and beyond the
\* limits.
Latitudes == {-(MaxLatitude + 1), -MaxLatitude, 0, MaxLatitude, MaxLatitude + 1}

Longitudes == {-(MaxLongitude + 1), -MaxLongitude, 0, MaxLongitude, MaxLongitude + 1}

\* f"/points/{latitude:.4f},{longitude:.4f}"
point_endpoint(a) == <<"/points/", a.latitude, a.longitude>>

\* A JSON member that is not there, one that is null, and an address of a
\* forecast.
Absent == "(absent)"
Null == "null"
ForecastUrl == "https://api.weather.gov/gridpoints/TOP/31,80/forecast"

\* Forecast periods, by name, and the lists of them the service can send.
Period == [name : {"Today", "Tonight"}]

RECURSIVE ListsUpTo(_)
ListsUpTo(n) ==
    IF n = 0 THEN {<<>>}
    ELSE LET shorter == ListsUpTo(n - 1)
         IN  shorter \cup {Append(l, p) : l \in {k \in shorter : Len(k) = n - 1},
                                          p \in Period}

PeriodLists == ListsUpTo(MaxPeriods)

\* The answer to a request: the request fails (httpx.RequestError), or there
\* is a status, which raise_for_status() may reject (httpx.HTTPStatusError),
\* and a body, which is JSON or not; of a JSON body, its member "properties"
\* (Absent, Null or an object) and in it "forecast" and "periods".
Response(status, is_json, properties, forecast, periods) ==
    [status |-> status, is_json |-> is_json, properties |-> properties,
     forecast |-> forecast, periods |-> periods]

NoResponse == Response("none", FALSE, Absent, Absent, <<>>)

Failures ==
    {Response("request_error", FALSE, Absent, Absent, <<>>),
     Response("http_error", FALSE, Absent, Absent, <<>>),
     Response("ok", FALSE, Absent, Absent, <<>>),
     Response("ok", TRUE, Absent, Absent, <<>>),
     Response("ok", TRUE, Null, Absent, <<>>)}

PointsResponses ==
    Failures \cup {Response("ok", TRUE, "object", f, <<>>) :
                       f \in {Absent, Null, "", ForecastUrl}}

ForecastResponses ==
    Failures \cup {Response("ok", TRUE, "object", Absent, l) : l \in PeriodLists}

\* http_client.get(url); raise_for_status(); json() inside
\* try ... except (httpx.HTTPStatusError, httpx.RequestError): what it ends in.
fetch(resp) ==
    IF resp.status \in {"request_error", "http_error"} THEN "caught"
    ELSE IF ~resp.is_json THEN "ValueError"
    ELSE "data"

\* data.get("properties", {}).get(...): None has no get.
properties(data) ==
    IF data.properties = Null THEN "AttributeError" ELSE "data"

\* `not forecast_url`
Falsy(value) == value \in {Absent, Null, ""}

\* format_forecast_period(period): a text with the fields of the period.
format_forecast_period(period) == <<period.name, "Temperature", "Wind">>

\* "\n---\n".join(texts)
RECURSIVE join(_)
join(texts) ==
    IF Len(texts) <= 1 THEN texts
    ELSE <<Head(texts), <<"---">>>> \o join(Tail(texts))

\* periods[:5]
first(periods) ==
    SubSeq(periods, 1, IF Len(periods) < MaxShown THEN Len(periods) ELSE MaxShown)

\* What a call returned: a message, or a forecast.
Answer(kind, message, forecasts) ==
    [kind |-> kind, message |-> message, forecasts |-> forecasts]

NoAnswer == Answer("none", "", <<>>)

\* ------------------------------------------------------------------ state
VARIABLES
    db_path,    \* self.db_path, fixed at construction
    _conn,      \* self._conn: NoConn or a connection object
    live,       \* the connection objects that are open
    disk,       \* the database in the file db_path (unused if Private(db_path))
    mem,        \* the private database of the connection, if Private(db_path)
    last,       \* the call that returned last: arguments, fault, outcome, value
    prev,       \* the call before it
    saved,      \* per id, the task of the last successful save, None once deleted
    twin,       \* a second store, opened explicitly, run in step (SpecLazy)
    caller,     \* the thread of control that made the last call (0: the only one)
    own,        \* per caller, the task it saved last and whether that save is
                \* still the last write to the id (SpecTasks)
    pc,         \* per thread, the call it is in the middle of (SpecThreads)
    owner,      \* the thread that created the connection in _conn (SpecThreads)
    context,    \* app_context of the Airbnb agent: a dict, key |-> value
    at,         \* where app_lifespan and the body of its `async with` are
    exc,        \* the exception that is propagating, or NoExc
    thrown,     \* the exception that was raised, or NoExc
    executor_tools, \* the mcp_tools AirbnbAgentExecutor was made with
    args,           \* latitude and longitude of the call of get_forecast
    line,           \* where the call of get_forecast is
    requests,       \* the requests the call has sent, in order
    points_data,    \* the answer to the gridpoint request
    forecast_data,  \* the answer to the forecast request
    answer          \* what the call returned

lifespan == <<context, at, exc, thrown, executor_tools>>

weather == <<args, line, requests, points_data, forecast_data, answer>>

vars == <<db_path, _conn, live, disk, mem, last, prev, saved, twin,
          caller, own, pc, owner,
          context, at, exc, thrown, executor_tools,
          args, line, requests, points_data, forecast_data, answer>>

\* The other programs of the repository, which the store never touches.
apart == <<lifespan, weather>>

\* What a single caller of the store on a single thread never touches.
aside == <<caller, own, pc, owner, apart>>

\* The store and everything about its callers.
stores == <<db_path, _conn, live, disk, mem, last, prev, saved, twin,
            caller, own, pc, owner>>

\* The store and the library behind it, as one value.
Store == [conn |-> _conn, live |-> live, disk |-> disk, mem |-> mem]

SetStore(s) ==
    /\ _conn' = s.conn
    /\ live' = s.live
    /\ disk' = s.disk
    /\ mem' = s.mem

\* The database the connection of s reaches.
DB(s) == IF Private(db_path) THEN s.mem ELSE s.disk

WithDB(s, db) ==
    IF Private(db_path) THEN [s EXCEPT !.mem = db] ELSE [s EXCEPT !.disk = db]

\* The result of a call: the store after it, how it ended, what it returned.
Result(s, outcome, value) == [s |-> s, outcome |-> outcome, value |-> value]

\* ------------------------------------------------------------- the library
\* sqlite3.connect: a connection object that is not in use.
NewConn(l) ==
    IF (1..MaxConn) \ l = {} THEN MaxConn
    ELSE CHOOSE c \in (1..MaxConn) \ l : \A d \in (1..MaxConn) \ l : c <= d

\* Why a statement cannot run on the connection of s, or OK.
StmtError(s, fault) ==
    IF s.conn \notin s.live THEN ClosedDatabase
    ELSE IF ~DB(s).table THEN NoSuchTable
    ELSE IF fault = "stmt" THEN StmtFailed
    ELSE OK

\* The table created without PRIMARY KEY on id (C2).
CreateTableNoKey(db) ==
    IF db.table THEN db ELSE [table |-> TRUE, pk |-> FALSE, rows |-> {}]

\* The table dropped and created anew at every open (C6).
CreateTableAnew(db) == [table |-> TRUE, pk |-> TRUE, rows |-> {}]

\* CREATE TABLE IF NOT EXISTS tasks (id TEXT PRIMARY KEY, task_data TEXT NOT NULL)
CreateTableIfNotExists(db) ==
    IF db.table THEN db ELSE [table |-> TRUE, pk |-> TRUE, rows |-> {}]

\* INSERT OR IGNORE: the row that is there for the id stays (C13).
InsertOrIgnore(db, id, text) ==
    [db EXCEPT !.rows =
        IF \E r \in @ : r.id = id THEN @ ELSE @ \cup {Row(id, text)}]

\* INSERT OR REPLACE INTO tasks (id, task_data) VALUES (id, text)
InsertOrReplace(db, id, text) ==
    [db EXCEPT !.rows =
        IF db.pk THEN {r \in @ : r.id # id} \cup {Row(id, text)}
        ELSE @ \cup {Row(id, text)}]

\* SELECT task_data FROM tasks WHERE id = id
Select(db, id) == {r.task_data : r \in {q \in db.rows : q.id = id}}

\* A DELETE with the comparison the wrong way round (C4).
DeleteFromOthers(db, id) == [db EXCEPT !.rows = {r \in @ : r.id = id}]

\* A DELETE without its WHERE clause (C17).
DeleteFromAll(db, id) == [db EXCEPT !.rows = {}]

\* DELETE FROM tasks WHERE id = id
DeleteFrom(db, id) == [db EXCEPT !.rows = {r \in @ : r.id # id}]

\* ---------------------------------------------------------------- the store
\* A _create_table() that swallows the failure of its statement (C12).
_create_table_quiet(s, fault) ==
    IF s.conn \notin s.live THEN Result(s, ClosedDatabase, None)
    ELSE IF fault = "schema" THEN Result(s, OK, None)
    ELSE Result(WithDB(s, CreateTableIfNotExists(DB(s))), OK, None)

_create_table(s, fault) ==
    IF s.conn \notin s.live THEN Result(s, ClosedDatabase, None)
    ELSE IF fault = "schema" THEN Result(s, SchemaFailed, None)
    ELSE Result(WithDB(s, CreateTableIfNotExists(DB(s))), OK, None)

\* A connect() without the test for an existing connection (C10).
connect_again(s, fault) ==
    IF fault = "connect" THEN Result(s, CannotOpen, None)
    ELSE LET c == NewConn(s.live)
         IN _create_table([s EXCEPT !.conn = c, !.live = @ \cup {c},
                                    !.mem = EmptyDB], fault)

connect(s, fault) ==
    IF s.conn # NoConn THEN Result(s, OK, None)
    ELSE IF fault = "connect" THEN Result(s, CannotOpen, None)
    ELSE LET c == NewConn(s.live)
         IN _create_table([s EXCEPT !.conn = c, !.live = @ \cup {c},
                                    !.mem = EmptyDB], fault)

\* A save() that does not call connect() first (C7).
save_unopened(s, task, fault) ==
    LET e == StmtError(s, fault)
    IN  IF e # OK THEN Result(s, e, None)
        ELSE Result(WithDB(s, InsertOrReplace(DB(s), task.id, json(task))),
                    OK, None)

\* A save() that replaces by DELETE then INSERT outside a transaction: when
\* the INSERT fails the old row is gone (C11).
save_torn(s, task, fault) ==
    LET o == connect(s, fault)
        e == StmtError(o.s, fault)
    IN  IF o.outcome # OK THEN o
        ELSE IF e = StmtFailed
             THEN Result(WithDB(o.s, DeleteFrom(DB(o.s), task.id)), e, None)
        ELSE IF e # OK THEN Result(o.s, e, None)
        ELSE Result(WithDB(o.s, InsertOrReplace(DB(o.s), task.id, json(task))),
                    OK, None)

save(s, task, fault) ==
    LET o == connect(s, fault)
        e == StmtError(o.s, fault)
    IN  IF o.outcome # OK THEN o
        ELSE IF e # OK THEN Result(o.s, e, None)
        ELSE Result(WithDB(o.s, InsertOrReplace(DB(o.s), task.id, json(task))),
                    OK, None)

\* A get() that takes a text it cannot parse for a missing record (C15).
get_swallow(s, task_id, fault) ==
    LET o == connect(s, fault)
        e == StmtError(o.s, fault)
        found == Select(DB(o.s), task_id)
        row == CHOOSE t \in found : TRUE
    IN  IF o.outcome # OK THEN o
        ELSE IF e # OK THEN Result(o.s, e, None)
        ELSE IF found = {} THEN Result(o.s, OK, None)
        ELSE IF WellFormed(row) THEN Result(o.s, OK, parse_raw(row))
        ELSE Result(o.s, OK, None)

get(s, task_id, fault) ==
    LET o == connect(s, fault)
        e == StmtError(o.s, fault)
        found == Select(DB(o.s), task_id)
        row == CHOOSE t \in found : TRUE
    IN  IF o.outcome # OK THEN o
        ELSE IF e # OK THEN Result(o.s, e, None)
        ELSE IF found = {} THEN Result(o.s, OK, None)
        ELSE IF WellFormed(row) THEN Result(o.s, OK, parse_raw(row))
        ELSE Result(o.s, ValidationError, None)

delete(s, task_id, fault) ==
    LET o == connect(s, fault)
        e == StmtError(o.s, fault)
    IN  IF o.outcome # OK THEN o
        ELSE IF e # OK THEN Result(o.s, e, None)
        ELSE Result(WithDB(o.s, DeleteFrom(DB(o.s), task_id)), OK, None)

\* A close() that keeps the closed connection in _conn (C8).
close_keep(s) ==
    IF s.conn # NoConn
    THEN Result([s EXCEPT !.live = @ \ {s.conn}, !.mem = EmptyDB], OK, None)
    ELSE Result(s, OK, None)

close(s) ==
    IF s.conn # NoConn
    THEN Result([s EXCEPT !.live = @ \ {s.conn}, !.mem = EmptyDB,
                          !.conn = NoConn], OK, None)
    ELSE Result(s, OK, None)

\* ------------------------------------------------------------------- calls
\* A call: its arguments, what the environment did to it, how it ended, what
\* it returned, and the rowcount of the cursor of its DELETE statement.
Call(op, id, task, fault, r, rowcount) ==
    [op |-> op, id |-> id, task |-> task, fault |-> fault,
     outcome |-> r.outcome, value |-> r.value, rowcount |-> rowcount]

NoCall == [op |-> "none", id |-> 0, task |-> None, fault |-> "none",
           outcome |-> OK, value |-> None, rowcount |-> 0]

\* What is kept of the call before the last one: what was called and whether
\* it returned.
Brief(c) == [op |-> c.op, id |-> c.id, task |-> c.task, ok |-> (c.outcome = OK),
             rowcount |-> c.rowcount]

\* The steps of a call the environment can make fail: opening the database
\* and creating the table happen only when the store is closed, a statement
\* is run by save, get and delete.
FaultsOf(s, op) ==
    {"none"}
    \cup (IF s.conn = NoConn /\ op # "close" THEN {"connect", "schema"} ELSE {})
    \cup (IF op \in {"save", "get", "delete"} THEN {"stmt"} ELSE {})

\* A call has ended: the store is as the call left it, and last tells of it.
Ended(op, id, task, fault, r, rowcount) ==
    /\ SetStore(r.s)
    /\ last' = Call(op, id, task, fault, r, rowcount)
    /\ UNCHANGED db_path

Returned(op, id, task, fault, r, rowcount) ==
    /\ Ended(op, id, task, fault, r, rowcount)
    /\ prev' = Brief(last)

ConnectStep(fault) ==
    /\ fault \in FaultsOf(Store, "connect")
    /\ Returned("connect", 0, None, fault, connect(Store, fault), 0)
    /\ UNCHANGED saved

SaveStep(task, fault) ==
    /\ fault \in FaultsOf(Store, "save")
    /\ LET r == save(Store, task, fault)
       IN  /\ Returned("save", task.id, task, fault, r, 0)
           /\ saved' = IF r.outcome = OK THEN [saved EXCEPT ![task.id] = task]
                       ELSE saved

GetStep(task_id, fault) ==
    /\ fault \in FaultsOf(Store, "get")
    /\ Returned("get", task_id, None, fault, get(Store, task_id, fault), 0)
    /\ UNCHANGED saved

DeleteStep(task_id, fault) ==
    /\ fault \in FaultsOf(Store, "delete")
    /\ LET r == delete(Store, task_id, fault)
           n == Cardinality(DB(r.s).rows) - Cardinality(DB(Store).rows)
       IN  /\ Returned("delete", task_id, None, fault, r, -n)
           /\ saved' = IF r.outcome = OK THEN [saved EXCEPT ![task_id] = None]
                       ELSE saved

CloseStep ==
    /\ Returned("close", 0, None, "none", close(Store), 0)
    /\ UNCHANGED saved

\* ----------------------------------------------- one store and its callers
\* The calls that run a statement.
StoreOps == {"save", "get", "delete"}

\* The coroutines that share the store, and what is remembered of each: the
\* task of its last successful save, and whether no save or delete of that id
\* by anyone has been executed since.
Callers == 1..NumCallers

NotYet == [task |-> None, current |-> FALSE]

\* The threads that share the store, and the call a thread is in the middle
\* of: past connect(), before its statement.
Threads == 1..NumThreads

Idle == [op |-> "none", id |-> 0, task |-> None]

Unopened == [conn |-> NoConn, live |-> {}, disk |-> EmptyDB, mem |-> EmptyDB]

Init ==
    /\ db_path \in Locations
    /\ _conn = NoConn
    /\ live = {}
    /\ disk = EmptyDB
    /\ mem = EmptyDB
    /\ last = NoCall
    /\ prev = Brief(NoCall)
    /\ saved = [i \in Ids |-> None]
    /\ twin = connect(Unopened, "none")
    /\ caller = 0
    /\ own = [c \in Callers |-> NotYet]
    /\ pc = [t \in Threads |-> Idle]
    /\ owner = 0
    /\ context = EmptyContext
    /\ at = "entered"
    /\ exc = NoExc
    /\ thrown = NoExc
    /\ executor_tools = {}
    /\ args = [latitude |-> 0, longitude |-> 0]
    /\ line = "idle"
    /\ requests = <<>>
    /\ points_data = NoResponse
    /\ forecast_data = NoResponse
    /\ answer = NoAnswer

Connect == \E f \in Faults : ConnectStep(f) /\ UNCHANGED <<twin, aside>>

Save == \E t \in Task, f \in Faults : SaveStep(t, f) /\ UNCHANGED <<twin, aside>>

Get == \E i \in Ids, f \in Faults : GetStep(i, f) /\ UNCHANGED <<twin, aside>>

Delete == \E i \in Ids, f \in Faults : DeleteStep(i, f) /\ UNCHANGED <<twin, aside>>

Close == CloseStep /\ UNCHANGED <<twin, aside>>

Next == Connect \/ Save \/ Get \/ Delete \/ Close

Spec == Init /\ [][Next]_vars

\* ------------------- the same calls on a store that was opened explicitly
\* The store of the variables is never opened explicitly; twin is a store at
\* an equal location on which connect() was called first.  Every call is made
\* on both, in an environment in which opening the database succeeds.
LazyFaults == {"none", "stmt"}

LazySave ==
    \E t \in Task, f \in LazyFaults :
        /\ SaveStep(t, f)
        /\ twin' = save(twin.s, t, f)
        /\ UNCHANGED aside

LazyGet ==
    \E i \in Ids, f \in LazyFaults :
        /\ GetStep(i, f)
        /\ twin' = get(twin.s, i, f)
        /\ UNCHANGED aside

LazyDelete ==
    \E i \in Ids, f \in LazyFaults :
        /\ DeleteStep(i, f)
        /\ twin' = delete(twin.s, i, f)
        /\ UNCHANGED aside

LazyClose ==
    /\ CloseStep
    /\ twin' = close(twin.s)
    /\ UNCHANGED aside

NextLazy == LazySave \/ LazyGet \/ LazyDelete \/ LazyClose

SpecLazy == Init /\ [][NextLazy]_vars

\* ------------------------------ a database file that something else wrote
\* The file at db_path outlives the store and is open to other writers (an
\* earlier version of the program, a partial write): the text of a row may be
\* one that Task.parse_raw no longer accepts, here a text cut short.  The
\* write is no call of the store; last and prev note that it happened.
Truncated(text) == SubSeq(text, 1, Len(text) - 1)

Corrupt ==
    /\ ~Private(db_path)
    /\ \E r \in disk.rows :
         /\ WellFormed(r.task_data)
         /\ disk' = [disk EXCEPT !.rows =
                        (@ \ {r}) \cup {Row(r.id, Truncated(r.task_data))}]
         /\ last' = [NoCall EXCEPT !.op = "corrupt", !.id = r.id]
    /\ prev' = Brief(last)
    /\ UNCHANGED <<db_path, _conn, live, mem, saved, twin, aside>>

NextCorrupt == Save \/ Get \/ Close \/ Corrupt

SpecCorrupt == Init /\ [][NextCorrupt]_vars

\* ------------------------------------------ coroutines that share the store
\* The methods of the store contain no await: on an event loop a call runs
\* from its first line to its last before another coroutine runs, and the
\* coroutines interleave call by call.  A write to an id that was executed
\* makes every earlier save of that id by anyone a thing of the past.  Only
\* the last call is remembered here; prev is not kept.
Written(c, id, task) ==
    [d \in Callers |->
        IF d = c /\ task # None THEN [task |-> task, current |-> TRUE]
        ELSE IF own[d].task.id = id THEN [own[d] EXCEPT !.current = FALSE]
        ELSE own[d]]

TaskSave(c) ==
    \E t \in Task, f \in FaultsOf(Store, "save") :
        LET r == save(Store, t, f)
        IN  /\ Ended("save", t.id, t, f, r, 0)
            /\ caller' = c
            /\ saved' = IF r.outcome = OK THEN [saved EXCEPT ![t.id] = t]
                        ELSE saved
            /\ own' = IF r.outcome = OK THEN Written(c, t.id, t) ELSE own
            /\ UNCHANGED <<prev, twin, pc, owner, apart>>

TaskGet(c) ==
    \E i \in Ids, f \in FaultsOf(Store, "get") :
        /\ Ended("get", i, None, f, get(Store, i, f), 0)
        /\ caller' = c
        /\ UNCHANGED <<prev, saved, twin, own, pc, owner, apart>>

TaskDelete(c) ==
    \E i \in Ids, f \in FaultsOf(Store, "delete") :
        LET r == delete(Store, i, f)
        IN  /\ Ended("delete", i, None, f, r, 0)
            /\ caller' = c
            /\ saved' = IF r.outcome = OK THEN [saved EXCEPT ![i] = None]
                        ELSE saved
            /\ own' = IF r.outcome = OK THEN Written(c, i, None) ELSE own
            /\ UNCHANGED <<prev, twin, pc, owner, apart>>

NextTasks == \E c \in Callers : TaskSave(c) \/ TaskGet(c) \/ TaskDelete(c)

SpecTasks == Init /\ [][NextTasks]_vars

\* --------------------------------------------- threads that share the store
\* The store holds no lock.  Between the connect() at the head of save, get
\* and delete and the statement that follows, another thread may run; the
\* connection is one sqlite3 made with its default check_same_thread, which
\* lets only the thread that created it use or close it.  (connect() and
\* close() are taken as one step each: the interleavings inside them add
\* behaviours and remove none.)

\* close() called by thread t on the connection that thread o created: where
\* self._conn.close() raises, the assignment self._conn = None is not reached.
close_from(s, t, o) ==
    IF s.conn # NoConn /\ o # t THEN Result(s, WrongThread, None)
    ELSE close(s)

\* The statement of the call c of thread t, run on whatever _conn is by now.
statement(s, c, t, o, fault) ==
    IF s.conn = NoConn THEN Result(s, NoConnection, None)
    ELSE IF o # t THEN Result(s, WrongThread, None)
    ELSE IF c.op = "save" THEN save(s, c.task, fault)
    ELSE IF c.op = "get" THEN get(s, c.id, fault)
    ELSE delete(s, c.id, fault)

\* Thread t calls save, get or delete and gets past its connect().
ThreadEnter(t) ==
    /\ pc[t] = Idle
    /\ \E op \in StoreOps, task \in Task, f \in FaultsOf(Store, "connect") :
         LET r == connect(Store, f)
             c == [op |-> op, id |-> task.id,
                   task |-> IF op = "save" THEN task ELSE None]
         IN  /\ Ended("connect", c.id, c.task, f, r, 0)
             /\ pc' = [pc EXCEPT ![t] = IF r.outcome = OK THEN c ELSE Idle]
             /\ owner' = IF _conn = NoConn /\ r.s.conn # NoConn THEN t ELSE owner
    /\ caller' = t
    /\ UNCHANGED <<prev, saved, twin, own, apart>>

\* Thread t runs the statement of its call, and the call ends.
ThreadExec(t) ==
    /\ pc[t] # Idle
    /\ \E f \in {"none", "stmt"} :
         LET r == statement(Store, pc[t], t, owner, f)
         IN  /\ Ended(pc[t].op, pc[t].id, pc[t].task, f, r, 0)
             /\ saved' = IF r.outcome = OK /\ pc[t].op # "get"
                         THEN [saved EXCEPT ![pc[t].id] = pc[t].task]
                         ELSE saved
    /\ pc' = [pc EXCEPT ![t] = Idle]
    /\ caller' = t
    /\ UNCHANGED <<prev, twin, own, owner, apart>>

\* Thread t calls close().
ThreadClose(t) ==
    /\ pc[t] = Idle
    /\ LET r == close_from(Store, t, owner)
       IN  /\ Ended("close", 0, None, "none", r, 0)
           /\ owner' = IF r.s.conn = NoConn THEN 0 ELSE owner
    /\ caller' = t
    /\ UNCHANGED <<prev, saved, twin, own, pc, apart>>

NextThreads == \E t \in Threads : ThreadEnter(t) \/ ThreadExec(t) \/ ThreadClose(t)

SpecThreads == Init /\ [][NextThreads]_vars

\* --------------------------------------- app_lifespan and run_server_async
\* app_lifespan is an async context manager: the code before its yield runs
\* on entry of the `async with`, the body of the `async with` runs while the
\* generator is suspended at the yield, and what the body raises is raised
\* again at the yield.  Any step can raise.
Raise(e) ==
    /\ exc' = e
    /\ thrown' = e
    /\ at' = IF e = "Exception" THEN "except" ELSE "finally"

Goes(to) ==
    /\ at' = to
    /\ UNCHANGED <<exc, thrown>>

\* client = MultiServerMCPClient(SERVER_CONFIGS); context["mcp_client"] = client
CreateClient ==
    /\ at = "entered"
    /\ \/ context' = Put(context, "mcp_client", SERVER_CONFIGS) /\ Goes("client")
       \/ \E e \in Exceptions : Raise(e) /\ UNCHANGED context
    /\ UNCHANGED <<executor_tools, stores, weather>>

\* context["mcp_tools"] = await client.get_tools(), and the yield
GetTools ==
    /\ at = "client"
    /\ \/ \E tools \in SUBSET Tools :
            context' = Put(context, "mcp_tools", tools) /\ Goes("yielded")
       \/ \E e \in Exceptions : Raise(e) /\ UNCHANGED context
    /\ UNCHANGED <<executor_tools, stores, weather>>

\* AirbnbAgentExecutor(mcp_tools=app_context.get("mcp_tools", []))
MakeExecutor ==
    /\ at = "yielded"
    /\ \/ executor_tools' = GetOr(context, "mcp_tools", {}) /\ Goes("executor")
       \/ \E e \in Exceptions : Raise(e) /\ UNCHANGED executor_tools
    /\ UNCHANGED <<context, stores, weather>>

\* The request handler, the application, its ASGI app, the uvicorn server.
Assemble ==
    /\ at = "executor"
    /\ \/ Goes("assembled")
       \/ \E e \in Exceptions : Raise(e)
    /\ UNCHANGED <<context, executor_tools, stores, weather>>

\* await uvicorn_server.serve(): it returns when the server is shut down.
Serve ==
    /\ at = "assembled"
    /\ \/ Goes("served")
       \/ \E e \in Exceptions : Raise(e)
    /\ UNCHANGED <<context, executor_tools, stores, weather>>

\* The body has finished: the generator goes on after its yield.
Resume ==
    /\ at = "served"
    /\ Goes("finally")
    /\ UNCHANGED <<context, executor_tools, stores, weather>>

\* except Exception as e: print(...); raise
Except ==
    /\ at = "except"
    /\ Goes("finally")
    /\ UNCHANGED <<context, executor_tools, stores, weather>>

\* finally: ...; context.clear()
Finally ==
    /\ at = "finally"
    /\ context' = clear(context)
    /\ Goes("exited")
    /\ UNCHANGED <<executor_tools, stores, weather>>

NextLifespan ==
    \/ CreateClient \/ GetTools \/ MakeExecutor \/ Assemble \/ Serve
    \/ Resume \/ Except \/ Finally

SpecLifespan == Init /\ [][NextLifespan]_vars

\* --------------------------------------------------------- get_forecast
Return(message) ==
    /\ line' = "returned"
    /\ answer' = Answer("message", message, <<>>)

Raises(exception) ==
    /\ line' = "raised"
    /\ answer' = Answer("raised", exception, <<>>)

\* get_forecast(latitude, longitude), up to the test of its arguments.
GetForecast ==
    /\ line = "idle"
    /\ \E lat \in Latitudes, lon \in Longitudes :
         LET a == [latitude |-> lat, longitude |-> lon]
         IN  /\ args' = a
             /\ IF InRange(a) THEN line' = "points" /\ UNCHANGED answer
                ELSE Return("Invalid latitude or longitude provided.")
    /\ UNCHANGED <<requests, points_data, forecast_data, stores, lifespan>>

\* The request for the gridpoint.
RequestPoints ==
    /\ line = "points"
    /\ requests' = Append(requests, point_endpoint(args))
    /\ \E resp \in PointsResponses :
         /\ points_data' = resp
         /\ IF fetch(resp) = "caught"
            THEN Return("Unable to retrieve NWS gridpoint information")
            ELSE IF fetch(resp) = "ValueError" THEN Raises("ValueError")
            ELSE line' = "endpoint" /\ UNCHANGED answer
    /\ UNCHANGED <<args, forecast_data, stores, lifespan>>

\* forecast_url = points_data.get("properties", {}).get("forecast")
FindEndpoint ==
    /\ line = "endpoint"
    /\ IF properties(points_data) = "AttributeError" THEN Raises("AttributeError")
       ELSE IF Falsy(points_data.forecast)
            THEN Return("Could not find the NWS forecast endpoint.")
       ELSE line' = "forecast" /\ UNCHANGED answer
    /\ UNCHANGED <<args, requests, points_data, forecast_data, stores, lifespan>>

\* The request for the forecast.
RequestForecast ==
    /\ line = "forecast"
    /\ requests' = Append(requests, points_data.forecast)
    /\ \E resp \in ForecastResponses :
         /\ forecast_data' = resp
         /\ IF fetch(resp) = "caught"
            THEN Return("Failed to retrieve detailed forecast data")
            ELSE IF fetch(resp) = "ValueError" THEN Raises("ValueError")
            ELSE line' = "periods" /\ UNCHANGED answer
    /\ UNCHANGED <<args, points_data, stores, lifespan>>

\* periods = forecast_data.get("properties", {}).get("periods", []) and the
\* text made of them.
FormatPeriods ==
    /\ line = "periods"
    /\ IF properties(forecast_data) = "AttributeError" THEN Raises("AttributeError")
       ELSE IF forecast_data.periods = <<>>
            THEN Return("No forecast periods found for this location.")
       ELSE /\ line' = "returned"
            /\ answer' = Answer("forecast", "",
                   join([i \in 1..Len(first(forecast_data.periods)) |->
                           format_forecast_period(forecast_data.periods[i])]))
    /\ UNCHANGED <<args, requests, points_data, forecast_data, stores, lifespan>>

NextForecast ==
    GetForecast \/ RequestPoints \/ FindEndpoint \/ RequestForecast \/ FormatPeriods

SpecForecast == Init /\ [][NextForecast]_vars

\* ================================================================== claims
\* The rows of the database the store reaches, and the texts kept for an id.
Rows == DB(Store).rows

Kept(id) == Select(DB(Store), id)

\* C1: round-trip fidelity.  A get(id) that the environment leaves alone and
\* that immediately follows a successful save of a task with that id returns
\* normally, with a task equal to the one saved.
RoundTrip ==
    (/\ prev.op = "save" /\ prev.ok
     /\ last.op = "get" /\ last.id = prev.id /\ last.fault = "none")
    => (last.outcome = OK /\ last.value = prev.task)

RoundTripSeen ==
    /\ prev.op = "save" /\ prev.ok
    /\ last.op = "get" /\ last.id = prev.id /\ last.fault = "none"
    /\ last.value = prev.task
    /\ last.value # None

\* C2: upsert overwrite.  No database ever holds two texts for one id, and
\* after save(id, p1); save(id, p2), both successful, a get(id) that the
\* environment leaves alone returns p2.
Upsert ==
    /\ [](\A i \in Ids :
            /\ Cardinality(Select(disk, i)) <= 1
            /\ Cardinality(Select(mem, i)) <= 1)
    /\ [][(/\ prev.op = "save" /\ prev.ok
           /\ last.op = "save" /\ last.outcome = OK /\ last.id = prev.id
           /\ last'.op = "get" /\ last'.id = last.id /\ last'.fault = "none")
          => (last'.outcome = OK /\ last'.value = last.task)]_vars

Overwritten ==
    /\ prev.op = "save" /\ prev.ok
    /\ last.op = "save" /\ last.outcome = OK /\ last.id = prev.id
    /\ last.task # prev.task
    /\ Kept(last.id) = {json(last.task)}

\* C3: a get(id) that the environment leaves alone, for an id with no record,
\* returns None and does not raise.
GetAbsent ==
    (last.op = "get" /\ last.fault = "none" /\ Kept(last.id) = {})
    => (last.outcome = OK /\ last.value = None)

\* C4: a get(id) that the environment leaves alone and that immediately
\* follows a delete(id) that returned gives None, whether the delete removed
\* a record or found none.
DeleteThenGet ==
    (/\ prev.op = "delete" /\ prev.ok
     /\ last.op = "get" /\ last.id = prev.id /\ last.fault = "none")
    => (last.outcome = OK /\ last.value = None)

DeletedThenGot ==
    /\ prev.op = "delete" /\ prev.ok /\ prev.rowcount = 1
    /\ last.op = "get" /\ last.id = prev.id /\ last.fault = "none"
    /\ last.outcome = OK /\ last.value = None

\* C5: a delete(id) that the environment leaves alone, for an id with no
\* record, returns normally and leaves the rows as they were.
DeleteAbsent ==
    [][(last'.op = "delete" /\ last'.fault = "none" /\ Kept(last'.id) = {})
       => (last'.outcome = OK /\ Rows' = Rows)]_vars

\* C6, as claimed: at every location, through any sequence of save, delete,
\* close and reopening, a get that returns gives the task of the last
\* successful save of the id, or None if it was deleted since or never saved.
Durable ==
    (last.op = "get" /\ last.outcome = OK) => last.value = saved[last.id]

\* C6, amended: the same where db_path names a database file; the file then
\* holds exactly the records saved and not deleted, the store open or closed.
DurableFile ==
    ~Private(db_path) =>
        /\ \A i \in Ids :
             Select(disk, i) = IF saved[i] = None THEN {} ELSE {json(saved[i])}
        /\ (last.op = "get" /\ last.outcome = OK) => last.value = saved[last.id]

ReopenedFile ==
    /\ ~Private(db_path)
    /\ prev.op = "close"
    /\ last.op = "get" /\ last.outcome = OK
    /\ last.value # None
    /\ last.value = saved[last.id]

\* C7: lazy open.  A save, get or delete on the store that was never opened
\* explicitly leaves it open, and every call returns what the same call
\* returns on the explicitly opened store and leaves the same rows.
LazyOpen ==
    /\ last.op \in StoreOps => (_conn # NoConn /\ _conn \in live)
    /\ last.op # "none" =>
         (last.outcome = twin.outcome /\ last.value = twin.value)
    /\ Rows = DB(twin.s).rows

LazyOpened ==
    /\ prev.op = "none"
    /\ last.op = "save" /\ last.outcome = OK
    /\ _conn \in live
    /\ Rows = {Row(last.id, json(last.task))}
    /\ Rows = DB(twin.s).rows

\* C8: close() on a closed store returns normally and changes nothing, and a
\* save, get or delete right after a close(), left alone by the environment,
\* returns normally on a connection that is open.
CloseReopen ==
    [][/\ (last'.op = "close" /\ _conn = NoConn)
            => (last'.outcome = OK /\ UNCHANGED <<_conn, live, disk, mem>>)
       /\ (last.op = "close" /\ last'.op \in StoreOps /\ last'.fault = "none")
            => (last'.outcome = OK /\ _conn' # NoConn /\ _conn' \in live')]_vars

ReopenedAfterClose ==
    /\ prev.op = "close"
    /\ last.op \in StoreOps /\ last.fault = "none" /\ last.outcome = OK
    /\ _conn \in live

\* C9: schema presence.  No save, get or delete runs its statement on a
\* closed connection or on a database without the table tasks.
SchemaPresent ==
    last.op \in StoreOps => last.outcome \notin {NoSuchTable, ClosedDatabase}

\* C10: connect() is safe to repeat.  There is never more than one open
\* connection; connect() on an open store returns normally and changes
\* nothing; and a connect() left alone by the environment returns normally
\* and keeps the rows, also when the table exists already.
Reconnect ==
    /\ [](Cardinality(live) <= 1)
    /\ [][last'.op = "connect" =>
            /\ _conn # NoConn
                 => (last'.outcome = OK /\ UNCHANGED <<_conn, live, disk, mem>>)
            /\ last'.fault = "none" => (last'.outcome = OK /\ Rows' = Rows)]_vars

Reconnected ==
    /\ prev.op = "connect" /\ prev.ok
    /\ last.op = "connect" /\ last.outcome = OK
    /\ live = {_conn}

\* C11: save is atomic.  A save that returns leaves exactly json(task) under
\* task.id; a save that raises leaves the rows as they were before the call.
\* Every state another call can see is one of the two.
AtomicSave ==
    [][last'.op = "save" =>
         IF last'.outcome = OK
         THEN \A i \in Ids :
                last'.id = i => Select(DB(Store), i)' = {json(last'.task)}
         ELSE Rows' = Rows /\ disk.rows' = disk.rows /\ saved' = saved]_vars

SaveFailedIntact ==
    /\ last.op = "save" /\ last.outcome = StmtFailed
    /\ saved[last.id] # None
    /\ saved[last.id] # last.task
    /\ Kept(last.id) = {json(saved[last.id])}

\* C12: a call in which opening the database or creating the table fails
\* raises that failure, returns nothing, leaves the database file and the
\* saved records as they were, and makes one attempt only: no connection is
\* left behind by a failed open, one by a failed schema creation.
OpenFailureFatal ==
    [][last'.fault \in {"connect", "schema"} =>
         /\ last'.outcome =
              (IF last'.fault = "connect" THEN CannotOpen ELSE SchemaFailed)
         /\ last'.value = None
         /\ UNCHANGED <<disk, mem, saved>>
         /\ last'.fault = "connect" => (_conn' = NoConn /\ live' = live)
         /\ last'.fault = "schema" =>
              (_conn' \in live' /\ Cardinality(live') = Cardinality(live) + 1)]_vars

OpenFailedSeen ==
    /\ ~Private(db_path)
    /\ last.op = "get" /\ last.fault = "schema" /\ last.outcome = SchemaFailed
    /\ Kept(last.id) # {}
    /\ last.value = None

\* C17: per-id isolation.  save(id, _) and delete(id) leave what is kept for
\* every other id as it was; get(id) leaves every row as it was and changes
\* the connection only by opening a closed store.
Isolation ==
    [][/\ last'.op \in {"save", "delete"} =>
            \A j \in Ids \ {last'.id} :
                Select(DB(Store), j)' = Select(DB(Store), j)
       /\ last'.op = "get" =>
            /\ Rows' = Rows /\ disk.rows' = disk.rows /\ mem.rows' = mem.rows
            /\ saved' = saved
            /\ _conn # NoConn => UNCHANGED <<_conn, live>>]_vars

IsolatedSeen ==
    /\ last.op = "delete" /\ last.outcome = OK /\ last.rowcount = 1
    /\ \E j \in Ids \ {last.id} :
         saved[j] # None /\ Kept(j) = {json(saved[j])}

\* A text is kept for the id that Task.parse_raw does not accept.
Malformed(id) == \E x \in Kept(id) : ~WellFormed(x)

\* C15, as claimed: a get(id) that the environment leaves alone, of an id
\* whose text cannot be parsed, raises, returns no task, and leaves the rows
\* and the connection as they were.
MalformedGet ==
    [][(last'.op = "get" /\ last'.fault = "none" /\ Malformed(last'.id)) =>
         /\ last'.outcome # OK
         /\ last'.value = None
         /\ UNCHANGED <<disk, mem, _conn, live>>]_vars

\* C15, amended: the same, but a closed store is left open by the get; an
\* open store keeps its connection.
MalformedGetOpens ==
    [][(last'.op = "get" /\ last'.fault = "none" /\ Malformed(last'.id)) =>
         /\ last'.outcome # OK
         /\ last'.value = None
         /\ UNCHANGED <<disk, mem>>
         /\ _conn # NoConn => UNCHANGED <<_conn, live>>
         /\ _conn = NoConn => (_conn' # NoConn /\ live' = live \cup {_conn'})]_vars

MalformedGotten ==
    /\ last.op = "get" /\ last.fault = "none"
    /\ last.outcome = ValidationError
    /\ Malformed(last.id)
    /\ _conn \in live

\* C13: last writer wins among coroutines.  No id ever has two records; after
\* a successful save the record of its id holds the payload of that save,
\* whoever saved the id before; the record of an id holds the payload of the
\* save that was executed last for as long as no delete of the id follows;
\* and a get by a caller, left alone by the environment, of the id it saved
\* returns the task it saved unless a save or delete of that id by another
\* caller (or a delete of its own) was executed in between.
LastWriterWins ==
    /\ \A i \in Ids : Cardinality(Kept(i)) <= 1
    /\ (last.op = "save" /\ last.outcome = OK) => Kept(last.id) = {json(last.task)}
    /\ \A c \in Callers :
          own[c].current => Kept(own[c].task.id) = {json(own[c].task)}
    /\ (/\ last.op = "get" /\ last.fault = "none"
        /\ caller \in Callers
        /\ own[caller].current /\ own[caller].task.id = last.id)
       => (last.outcome = OK /\ last.value = own[caller].task)

\* Two callers have saved different payloads to one id, and the one whose
\* save was executed last reads its own payload back.
LastWriterRead ==
    /\ last.op = "get" /\ last.fault = "none" /\ last.outcome = OK
    /\ caller \in Callers
    /\ own[caller].current /\ last.value = own[caller].task
    /\ \E d \in Callers \ {caller} :
          /\ own[d].task.id = last.id
          /\ own[d].task # own[caller].task
          /\ ~own[d].current

\* C14: access to the connection is serialized, so that in particular a
\* thread that is past the connect() of its save, get or delete still finds
\* the connection it made sure of: no close() of another thread has set _conn
\* to None in the meantime, and no statement is run on None.
Serialized ==
    /\ \A t \in Threads : pc[t] # Idle => _conn # NoConn
    /\ last.outcome # NoConnection

\* C16: close() never fails observably.  Every close() returns normally and
\* leaves the store closed.
CloseNeverFails ==
    last.op = "close" => (last.outcome = OK /\ _conn = NoConn)

\* Where the body of `async with app_lifespan(app_context)` is running.
InBody == at \in {"yielded", "executor", "assembled", "served"}

\* C18: the body of the lifespan runs only with both mcp_client and mcp_tools
\* in the context, and gives the executor the tools that were loaded; once the
\* lifespan has exited the context is empty, whether the body finished, the
\* body raised or the initialization raised; and what was raised is what
\* leaves the lifespan.
LifespanClears ==
    /\ InBody => /\ {"mcp_client", "mcp_tools"} \subseteq DOMAIN context
                 /\ at # "yielded" => executor_tools = context["mcp_tools"]
    /\ at = "exited" => (DOMAIN context = {} /\ exc = thrown)
    /\ at \in {"except", "finally"} => exc = thrown

\* The body raised an Exception after tools had been loaded, and the lifespan
\* has exited.
BodyRaisedExited ==
    /\ at = "exited"
    /\ thrown = "Exception"
    /\ executor_tools # {}
    /\ context = EmptyContext

\* The number of periods a forecast text shows.
Shown == (Len(answer.forecasts) + 1) \div 2

\* No request is sent for coordinates out of range; the forecast request
\* comes second, after a gridpoint request that was answered with a forecast
\* address, and goes to that address.
RequestsInOrder ==
    /\ ~InRange(args) => requests = <<>>
    /\ Len(requests) <= 2
    /\ Len(requests) >= 1 => requests[1] = point_endpoint(args)
    /\ Len(requests) = 2 => /\ fetch(points_data) = "data"
                            /\ properties(points_data) = "data"
                            /\ ~Falsy(points_data.forecast)
                            /\ requests[2] = points_data.forecast

\* A forecast shows at most the first MaxShown periods, in their order.
FirstPeriods ==
    answer.kind = "forecast" =>
        /\ Len(requests) = 2
        /\ Shown >= 1 /\ Shown <= MaxShown /\ Shown <= Len(forecast_data.periods)
        /\ (Shown < Len(forecast_data.periods) => Shown = MaxShown)
        /\ \A i \in 1..Shown :
              answer.forecasts[2 * i - 1] = format_forecast_period(forecast_data.periods[i])

\* C19: get_forecast sends its requests in a guarded order (RequestsInOrder),
\* every step that fails makes the call return a text message and none makes
\* it raise, and a forecast holds at most the first 5 periods in their order.
GuardedOrder ==
    /\ RequestsInOrder
    /\ line # "raised"
    /\ line = "returned" => answer.kind \in {"message", "forecast"}
    /\ FirstPeriods

====
